---- MODULE Spec2Model ----
(***************************************************************************)
(* The Python operator host of the dora runtime                            *)
(* (binaries/runtime/src/operator/python.rs): python::run with its         *)
(* python_runner event loop, the hot-reload step, the SendOutputCallback   *)
(* and the panic barrier that emits the terminal event.  The host is one   *)
(* thread; its environment is the upstream that feeds the incoming flume   *)
(* channel and the runtime that drains the bounded operator-events         *)
(* channel and answers sample-allocation requests.                         *)
(***************************************************************************)
EXTENDS Integers, Sequences, FiniteSets, TLC

(* ------------------------------ bounds -------------------------------- *)

\* How many events the upstream puts on the incoming channel in one run.
MaxEvents == 2

\* How many events the upstream puts on the incoming channel in a run that
\* is followed to its end under fairness.
MaxFairEvents == 1

\* How many send_output calls the operator makes in one run.
MaxCalls == 2

\* Capacity of the bounded operator-events channel (tokio mpsc).
EventsCap == 1

\* How many calls are made on one communication layer.
MaxLayerCalls == 4

(* ------------------------- program constants -------------------------- *)

\* dora_node_api::ZERO_COPY_THRESHOLD, imported at python.rs:293.
ZERO_COPY_THRESHOLD == 4096

\* DoraStatus discriminants compared against in python.rs:241-243.
Continue == 0
Stop == 1
StopAll == 2

\* A status outside the enum range (python.rs:244, the `other` arm).
InvalidStatus == 3

(* ----------------------------- data ----------------------------------- *)

\* Topic names given to publisher and subscribe.
Topics == {"a", "b"}

\* A topic with no entry in the publishers map.
NoPublisher == 0

\* OperatorSource (mod.rs:38-73).
SourceKinds == {"SharedLibrary", "Python", "Wasm"}

\* How init_tracing ends in a build with the feature `tracing`
\* (mod.rs:30-33); a build without the feature behaves as "ok".
TracingOutcomes == {"ok", "failed"}

\* Event variants the host can receive (mod.rs:93-103 plus Event::Reload,
\* python.rs:128).
EventKinds == {"Stop", "Input", "InputClosed", "Reload"}

\* Payload sizes an operator hands to send_output: empty, exactly at the
\* threshold, one byte above it.
Sizes == {0, ZERO_COPY_THRESHOLD, ZERO_COPY_THRESHOLD + 1}

\* The `data` argument of send_output: PyBytes, an arrow array, anything
\* else (python.rs:337-351).
DataKinds == {"bytes", "arrow", "invalid"}

\* What happens once the sample is there: the data is copied and the
\* metadata converts, copy_array_into_sample fails (python.rs:346), or
\* pydict_to_metadata fails (python.rs:353-354).
FillOutcomes == {"ok", "copy_failed", "metadata_failed"}

\* Attribute names of the operator instance __dict__.
Keys == {"n", "x", "y", "dataflow_descriptor"}

\* A key that is not in a __dict__.
Absent == -1

EmptyBag == [k \in Keys |-> Absent]

\* The two versions of the operator module that can be on disk: what
\* Operator.__init__ leaves in the fresh instance's __dict__.
Versions == {"A", "B"}

InitBag(v) ==
    IF v = "A"
    THEN [k \in Keys |-> CASE k = "n" -> 0 [] k = "x" -> 1 [] OTHER -> Absent]
    ELSE [k \in Keys |-> CASE k = "n" -> 0 [] k = "x" -> 2 [] k = "y" -> 7
                           [] OTHER -> Absent]

\* operator.setattr("dataflow_descriptor", ...) (python.rs:102-105).
SetDescriptor(bag) == [bag EXCEPT !["dataflow_descriptor"] = 1]

\* Events of the operator-events channel, one record shape for all variants.
\* `call` is the number of the send_output call that produced the event,
\* `reply` the one-shot reply channel an AllocateOutputSample carries.
EvOutput(c, l, s) ==
    [type |-> "Output", reason |-> "-", len |-> l, call |-> c, sample |-> s,
     reply |-> 0]
EvAllocate(c, l, r) ==
    [type |-> "AllocateOutputSample", reason |-> "-", len |-> l, call |-> c,
     sample |-> "-", reply |-> r]
EvFinished(r) ==
    [type |-> "Finished", reason |-> r, len |-> 0, call |-> 0, sample |-> "-",
     reply |-> 0]
EvError ==
    [type |-> "Error", reason |-> "-", len |-> 0, call |-> 0, sample |-> "-",
     reply |-> 0]
EvPanic ==
    [type |-> "Panic", reason |-> "-", len |-> 0, call |-> 0, sample |-> "-",
     reply |-> 0]

NoResult == [type |-> "none", reason |-> "-", len |-> 0, call |-> 0,
             sample |-> "-", reply |-> 0]

TerminalTypes == {"Finished", "Error", "Panic"}

\* A sample: a private aligned buffer or a loan from the transport.
NoSample == [kind |-> "-", len |-> 0, align |-> 0, fill |-> "-"]

NoCall == [len |-> 0, no |-> 0, sample |-> NoSample]

\* How an on_event call can end: it returns an enum whose value is `value`,
\* returns something without an integer `.value`, raises, or a native panic
\* unwinds through it.
Outcomes ==
    {[kind |-> "return", value |-> v] : v \in {Continue, Stop, StopAll, InvalidStatus}}
    \cup {[kind |-> k, value |-> 0] : k \in {"noenum", "raise", "panic"}}

NoOutcome == [kind |-> "none", value |-> 0]

\* No reload was done in this iteration.
NoReload == [to |-> "none", previous |-> EmptyBag]

NoReply == [id |-> 0, st |-> "none"]

\* An incoming event: its variant and its position in the order the
\* upstream sent the events.
NoEvent == [kind |-> "none", seq |-> 0]

(* ----------------------------- state ---------------------------------- *)

VARIABLES
    pc,            \* where the operator's thread is
    runResult,     \* what run_operator returned: "running", "Ok", "Err"; for
                   \* a Python operator that is what python::run returned
    initDone,      \* the init_done one-shot: "unsent", "ok", "err", "dropped"
    nSent,         \* how many events the upstream put on the incoming channel
    incoming,      \* the incoming channel's queue
    inClosed,      \* all senders of the incoming channel dropped
    event,         \* the event of the latest loop iteration, or NoEvent
    reload,        \* let mut reload (python.rs:123)
    operator,      \* the operator instance's __dict__
    reloaded,      \* the reload this iteration did: what it reloaded to, and
                   \* until on_event is called the state it started from
    dropped,       \* how the instance was dropped: "no", "gil", "nogil"
    replaced,      \* how an instance a reload replaced was dropped: "no",
                   \* "gil", "nogil"
    nDelivered,    \* how many times operator.on_event was called
    lastOutcome,   \* how the latest on_event call ended
    result,        \* what python_runner returned to the panic barrier
    events,        \* every event enqueued on the operator-events channel
    chanLen,       \* how many of them the runtime has not received yet
    eventsClosed,  \* the receiver of the operator-events channel is gone
    call,          \* the send_output call on_event has in progress
    late,          \* where a send_output call made by a thread of the
                   \* operator that kept the callback is: "idle", "allocate",
                   \* "await_sample", "publish", "resume_ok", "resume_err"
    lateCall,      \* the send_output call that thread has in progress
    reply,         \* the one-shot reply channel of the pending request
    nextReply,     \* one-shot channels created so far
    consumed,      \* reply channels the host has taken an outcome from
    callsMade,     \* send_output calls started
    callsOk,       \* send_output calls that returned Ok(())
    callsErr,      \* send_output calls that returned an error
    gil,           \* who holds the interpreter lock: "free", "host", or
                   \* "thread", a thread of the operator
    sendClosed,    \* a send_output call of the latest on_event found the
                   \* operator-events channel closed
    callError,     \* why the latest send_output call of the on_event in
                   \* progress returned an error, "none" when it did not
    publishers,    \* IceoryxCommunicationLayer.publishers: topic -> publisher
    created,       \* the underlying publishers, by the topic each was
                   \* created for, in the order of creation
    handles,       \* the Box<dyn Publisher> handles handed out
    receivers,     \* the Box<dyn Subscriber> receivers handed out
    failures       \* publisher and subscribe calls that returned an error

vars == <<pc, runResult, initDone, nSent, incoming, inClosed, event, reload,
          operator, reloaded, dropped, replaced, nDelivered,
          lastOutcome, result, events, chanLen, eventsClosed, call, late,
          lateCall, reply,
          nextReply, consumed, callsMade, callsOk, callsErr, gil,
          sendClosed, callError, publishers, created, handles, receivers,
          failures>>

\* The state of the communication layer.
layerVars == <<publishers, created, handles, receivers, failures>>

\* The state of the operator runtime.
runtimeVars == <<pc, runResult, initDone, nSent, incoming, inClosed, event,
                 reload, operator, reloaded, dropped, replaced, nDelivered,
                 lastOutcome,
                 result, events, chanLen, eventsClosed, call, late, lateCall,
                 reply,
                 nextReply, consumed, callsMade, callsOk, callsErr, gil,
                 sendClosed, callError>>

\* What the host thread and the threads of the operator write.
hostVars == <<pc, runResult, initDone, event, reload, operator,
              reloaded, dropped, replaced, nDelivered, lastOutcome,
              result, call, late, lateCall, nextReply, consumed, callsMade,
              callsOk,
              callsErr,
              gil, sendClosed, callError>>

\* The operator instance and the loop's bookkeeping.
opVars == <<reload, operator, reloaded, dropped, replaced, nDelivered,
           lastOutcome>>

\* The counters of send_output calls.
callVars == <<callsMade, callsOk, callsErr, sendClosed, callError>>

\* The incoming channel.
upVars == <<nSent, incoming, inClosed>>

\* The send_output call in progress and its reply channel.
sendVars == <<call, late, lateCall, reply, nextReply, consumed>>

Init ==
    /\ pc = "dispatch"
    /\ runResult = "running"
    /\ initDone = "unsent"
    /\ nSent = 0
    /\ incoming = <<>>
    /\ inClosed = FALSE
    /\ event = NoEvent
    /\ reload = FALSE
    /\ operator = EmptyBag
    /\ reloaded = NoReload
    /\ dropped = "no"
    /\ replaced = "no"
    /\ nDelivered = 0
    /\ lastOutcome = NoOutcome
    /\ result = NoResult
    /\ events = <<>>
    /\ chanLen = 0
    /\ eventsClosed = FALSE
    /\ call = NoCall
    /\ late = "idle"
    /\ lateCall = NoCall
    /\ reply = NoReply
    /\ nextReply = 0
    /\ consumed = <<>>
    /\ callsMade = 0
    /\ callsOk = 0
    /\ callsErr = 0
    /\ gil = "free"
    /\ sendClosed = FALSE
    /\ callError = "none"
    /\ publishers = [t \in Topics |-> NoPublisher]
    /\ created = <<>>
    /\ handles = <<>>
    /\ receivers = <<>>
    /\ failures = 0

(* ------------------------- pure helpers ------------------------------- *)

\* The barrier reporting a caught panic as an error.
PanicAsError == EvError

\* What the panic barrier reports for a caught unwind (python.rs:268-270).
PanicReport == EvPanic

\* What run_operator returns from its Wasm arm (mod.rs:71-75).
WasmResult == "Ok"

\* The payload of an Input: `data: Option<Vec<u8>>` (mod.rs:98).
Payloads == {"none", "bytes"}

\* The view of a Reload event.  The enum of mod.rs has no Reload variant
\* and into_py no arm for it; the event python_runner holds is made into a
\* view by PyEvent::from (python.rs:217), and the event marshalling
\* defines the three types below and none for Reload.
ReloadView == [type |-> "-", id |-> FALSE, data |-> "-", metadata |-> FALSE]

\* IntoPy for IncomingEvent (mod.rs:105-144): the map on_event receives.
\* `id` and `metadata` say whether the key is set, `data` what is under
\* the key "data": "-" when the key is not set, "empty" for the empty bytes
\* of an absent payload.
IntoPy(kind, payload) ==
    CASE kind = "Stop" ->
           [type |-> "STOP", id |-> FALSE, data |-> "-", metadata |-> FALSE]
      [] kind = "Input" ->
           [type |-> "INPUT", id |-> TRUE,
            data |-> IF payload = "none" THEN "empty" ELSE payload,
            metadata |-> TRUE]
      [] kind = "InputClosed" ->
           [type |-> "INPUT_CLOSED", id |-> TRUE, data |-> "-",
            metadata |-> FALSE]
      [] OTHER -> ReloadView

\* FlumeRecv that reports an empty queue as disconnected while senders
\* are still alive.
FlumeRecvEmptyDisconnects(q, closed) ==
    IF q # <<>>
    THEN [st |-> "event", event |-> Head(q), rest |-> Tail(q)]
    ELSE [st |-> "disconnected", event |-> NoEvent, rest |-> q]

\* FlumeRecv that reports the disconnection as soon as the senders are
\* gone, losing what is still queued.
FlumeRecvClosedFirst(q, closed) ==
    IF closed
    THEN [st |-> "disconnected", event |-> NoEvent, rest |-> q]
    ELSE IF q # <<>>
         THEN [st |-> "event", event |-> Head(q), rest |-> Tail(q)]
         ELSE [st |-> "blocked", event |-> NoEvent, rest |-> q]

\* flume::Receiver::recv (python.rs:126): the oldest queued event, or Err
\* once the queue is empty and every sender is gone.
FlumeRecv(q, closed) ==
    IF q # <<>>
    THEN [st |-> "event", event |-> Head(q), rest |-> Tail(q)]
    ELSE [st |-> IF closed THEN "disconnected" ELSE "blocked",
          event |-> NoEvent, rest |-> q]

\* The wrong reason for a disconnected channel.
DisconnectedReasonStop == "ExplicitStop"

\* The reason the loop breaks with when recv fails (python.rs:126).
DisconnectedReason == "InputsClosed"

\* MergeState the other way round: the fresh __init__ values win.
MergeStateFreshWins(fresh, previous) ==
    [k \in Keys |-> IF fresh[k] # Absent THEN fresh[k] ELSE previous[k]]

\* dict.update (python.rs:163-169): the fresh instance's __dict__ updated
\* with the previous instance's __dict__.
MergeState(fresh, previous) ==
    [k \in Keys |-> IF previous[k] # Absent THEN previous[k] ELSE fresh[k]]

\* The reload block replacing the operator before the reload has succeeded:
\* a failure leaves an instance without its state.
ReloadResultLosesState(op, o) ==
    IF o = "fail" THEN EmptyBag ELSE MergeState(InitBag(o), op)

\* The reload block (python.rs:131-179): on success the fresh instance with
\* the merged state replaces the operator, on any failure the operator stays.
ReloadResult(op, o) ==
    IF o = "fail" THEN op ELSE MergeState(InitBag(o), op)

\* What the modelled operator's on_event does to its own state: it counts
\* the calls in self.n and sets self.x when the event it is given has the
\* type INPUT.
OnEventEffect(op, ev) ==
    [op EXCEPT !["n"] = IF @ = Absent THEN 1 ELSE @ + 1,
               !["x"] = IF IntoPy(ev.kind, "bytes").type = "INPUT" THEN 42
                        ELSE @]

\* The status the on_event closure yields (python.rs:222-238).
StatusResult(o, rl) ==
    CASE o.kind = "return" -> [ok |-> TRUE, status |-> o.value]
      [] o.kind = "raise" /\ rl -> [ok |-> TRUE, status |-> Continue]
      [] OTHER -> [ok |-> FALSE, status |-> 0]

\* LoopAction with the Stop arm lost: the status falls through to Continue.
LoopActionIgnoresStop(s) ==
    CASE s = Continue -> "next"
      [] s = Stop -> "next"
      [] s = StopAll -> "ExplicitStopAll"
      [] OTHER -> "bail"

\* match status (python.rs:240-245).
LoopAction(s) ==
    CASE s = Continue -> "next"
      [] s = Stop -> "ExplicitStop"
      [] s = StopAll -> "ExplicitStopAll"
      [] OTHER -> "bail"

\* NeedsLoan with the comparison off by one.
NeedsLoanAtThreshold(len) == len >= ZERO_COPY_THRESHOLD

\* allocate_sample's test (python.rs:319).
NeedsLoan(len) == len > ZERO_COPY_THRESHOLD

\* AVec::__from_elem(128, 0, data_len) (python.rs:331).
PrivateSample(len) ==
    [kind |-> "private", len |-> len, align |-> 128, fill |-> "zero"]

\* The sample a successful reply carries.
LoanedSample(len) ==
    [kind |-> "loan", len |-> len, align |-> 128, fill |-> "transport"]

\* One reply channel kept and used for every request.
ReusedReply(n) == 1

\* oneshot::channel() (python.rs:320): a channel no request has used.
FreshReply(n) == n + 1

\* Whether the call goes on to send the Output (python.rs:340-355): a
\* failed copy or a failed metadata conversion returns the error.
FillOk(f) == f = "ok"

\* tokio Sender::blocking_send returns: there is room, or the receiver is gone.
CanSend == eventsClosed \/ chanLen < EventsCap

\* SendResult with the send error ignored.
SendResultIgnored(closed) == "ok"

\* What blocking_send(..).map_err(..) gives the caller (python.rs:364-366).
SendResult(closed) == IF closed THEN "err" ELSE "ok"

\* Enqueue that puts the event in the log although the receiver is gone.
EnqueueAlthoughClosed(log, ev, closed) == Append(log, ev)

\* The log of the operator-events channel after blocking_send(ev).
Enqueue(log, ev, closed) == IF closed THEN log ELSE Append(log, ev)

BlockingSend(ev) ==
    /\ CanSend
    /\ events' = Enqueue(events, ev, eventsClosed)
    /\ chanLen' = IF eventsClosed THEN chanLen ELSE chanLen + 1

\* The event the runtime receives next.
OldestQueued == events[Len(events) - chanLen + 1]

(* -------------------- run_operator: dispatch -------------------------- *)

\* mod.rs:30-33: in a build with the feature `tracing` a failing
\* init_tracing returns the error from run_operator before the source is
\* looked at; no host is called and the channels are dropped.
\* mod.rs:38-75: run_operator matches on the source kind.  A Python source
\* enters python::run; a shared-library source enters shared_lib::run,
\* whose host is not followed further here; the Wasm arm logs "WASM
\* operators are not supported yet" with tracing::error! and falls through
\* to the Ok(()) at line 75, dropping the channels it was given.
RunOperator ==
    /\ pc = "dispatch"
    /\ \E src \in SourceKinds, tr \in TracingOutcomes :
         CASE tr = "failed" ->
                /\ pc' = "no_tracing"
                /\ runResult' = "Err"
                /\ incoming' = <<>>
           [] tr = "ok" /\ src = "Python" ->
                /\ pc' = "resolve"
                /\ UNCHANGED <<runResult, incoming>>
           [] tr = "ok" /\ src = "SharedLibrary" ->
                /\ pc' = "shared_lib"
                /\ UNCHANGED <<runResult, incoming>>
           [] OTHER ->
                /\ pc' = "unsupported"
                /\ runResult' = WasmResult
                /\ incoming' = <<>>
    /\ UNCHANGED <<initDone, nSent, inClosed, event, opVars, result, events,
                   chanLen, eventsClosed, sendVars, callVars, gil>>
    /\ UNCHANGED layerVars

(* -------------------- python::run: resolution ------------------------- *)

\* python.rs:44-70, the source resolves to a canonical path with a UTF-8
\* file stem.
ResolveOk ==
    /\ pc = "resolve"
    /\ UNCHANGED gil
    /\ pc' = "init"
    /\ UNCHANGED <<runResult, initDone, upVars, event, opVars, result, events,
                   chanLen, eventsClosed, sendVars, callVars>>
    /\ UNCHANGED layerVars

\* python.rs:44-69, a `?` or the bail! returns the error from run: download
\* failure, missing file, canonicalize failure, no or non-UTF-8 file stem.
\* Nothing has been sent; init_done is dropped with run's arguments.
ResolveFail ==
    /\ pc = "resolve"
    /\ UNCHANGED gil
    /\ pc' = "done"
    /\ runResult' = "Err"
    /\ initDone' = "dropped"
    /\ incoming' = <<>>
    /\ UNCHANGED <<nSent, inClosed, event, opVars, result, events, chanLen,
                   eventsClosed, sendVars, callVars>>
    /\ UNCHANGED layerVars

(* -------------------- python_runner: init ----------------------------- *)

\* python.rs:111-121 with init_operator (76-108): on success the instance
\* exists and init_done carries Ok, on failure init_done carries the error
\* and python_runner bails.  A panic unwinding out of init_operator leaves
\* python_runner before either send: init_done is dropped unsent with the
\* closure and the barrier (261-270) gets the panic.
InitOperator ==
    /\ pc = "init"
    /\ gil = "free"
    /\ UNCHANGED gil
    /\ \E o \in Versions \cup {"fail", "panic"} :
         CASE o = "fail" ->
                /\ initDone' = "err"
                /\ result' = EvError
                /\ pc' = "barrier"
                /\ incoming' = <<>>
                /\ UNCHANGED operator
           [] o = "panic" ->
                /\ initDone' = "dropped"
                /\ result' = PanicReport
                /\ pc' = "barrier"
                /\ incoming' = <<>>
                /\ UNCHANGED operator
           [] OTHER ->
                /\ initDone' = "ok"
                /\ operator' = SetDescriptor(InitBag(o))
                /\ pc' = "recv"
                /\ UNCHANGED <<result, incoming>>
    /\ UNCHANGED <<runResult, nSent, inClosed, event, reload, reloaded,
                   dropped, replaced, nDelivered, lastOutcome, events,
                   chanLen, eventsClosed, sendVars, callVars>>
    /\ UNCHANGED layerVars

(* -------------------- python_runner: main loop ------------------------ *)

\* python.rs:126-128: receive the next event, or leave the loop with
\* InputsClosed when the channel is disconnected.
RecvEvent ==
    /\ pc = "recv"
    /\ UNCHANGED gil
    /\ LET r == FlumeRecv(incoming, inClosed) IN
         /\ r.st # "blocked"
         /\ incoming' = r.rest
         /\ IF r.st = "event"
            THEN /\ event' = r.event
                 /\ reloaded' = NoReload
                 /\ pc' = IF r.event.kind = "Reload" THEN "reload" ELSE "call"
                 /\ UNCHANGED result
            ELSE /\ result' = EvFinished(DisconnectedReason)
                 /\ pc' = "drop"
                 /\ UNCHANGED <<event, reloaded>>
    /\ UNCHANGED <<runResult, initDone, nSent, inClosed, reload, operator,
                   dropped, replaced, nDelivered, lastOutcome,
                   events, chanLen, eventsClosed, sendVars, callVars>>
    /\ UNCHANGED layerVars

\* python.rs:128-180: a Reload sets the sticky flag and tries to reload.
\* On success the assignment at 174, after the with_gil of 131-172 has
\* ended, drops the instance it replaces without the interpreter lock.  A
\* panic unwinding out of the reload block leaves python_runner for the
\* barrier: on_event is not called and the instance is dropped with the
\* closure, the lock released.
ReloadOperator ==
    /\ pc = "reload"
    /\ gil = "free"
    /\ UNCHANGED gil
    /\ reload' = TRUE
    /\ \E o \in Versions \cup {"fail", "panic"} :
         IF o = "panic"
         THEN /\ result' = PanicReport
              /\ pc' = "barrier"
              /\ dropped' = "nogil"
              /\ operator' = EmptyBag
              /\ incoming' = <<>>
              /\ UNCHANGED <<reloaded, replaced>>
         ELSE /\ operator' = ReloadResult(operator, o)
              /\ reloaded' = [to |-> o, previous |-> operator]
              /\ replaced' = IF o \in Versions THEN "nogil" ELSE replaced
              /\ pc' = "call"
              /\ UNCHANGED <<result, dropped, incoming>>
    /\ UNCHANGED <<runResult, initDone, nSent, inClosed, event, nDelivered,
                   lastOutcome, events, chanLen, eventsClosed, sendVars,
                   callVars>>
    /\ UNCHANGED layerVars

\* The interpreter lock while on_event runs.  Inside the callback's Rust
\* code (python.rs:311-356) the calling thread keeps the lock until
\* allow_threads; the operator's Python code in on_event holds it only as
\* the interpreter lets it, which hands the lock to another thread of the
\* operator when that thread wants to run.
\* A thread of the operator can take the lock.
ThreadCanLock == gil = "free" \/ (gil = "host" /\ pc = "on_event")

\* The Python code of on_event can go on: no other thread has the lock.
OnEventCanRun == gil # "thread"

\* python.rs:182-220: the host takes the interpreter lock and passes the
\* event, Reload included, to on_event.
CallOnEvent ==
    /\ pc = "call"
    /\ gil = "free"
    /\ gil' = "host"
    /\ nDelivered' = nDelivered + 1
    /\ operator' = OnEventEffect(operator, event)
    /\ reloaded' = [reloaded EXCEPT !.previous = EmptyBag]
    /\ sendClosed' = FALSE
    /\ callError' = "none"
    /\ pc' = "on_event"
    /\ UNCHANGED <<runResult, initDone, upVars, event, reload, dropped,
                   replaced,
                   lastOutcome, result, events,
                   chanLen, eventsClosed, sendVars, callsMade, callsOk,
                   callsErr>>
    /\ UNCHANGED layerVars

\* python.rs:222-246: on_event ends; its outcome becomes a status, the
\* status a loop action.  The with_gil guard releases the interpreter lock
\* on every way out, unwinding included.  An error or a panic leaves python_runner without
\* reaching the with_gil drop at 250; the closure's captures, the operator
\* and the incoming receiver with what is still queued, are dropped as it
\* returns.
OnEventEnds ==
    /\ pc = "on_event"
    /\ OnEventCanRun
    /\ gil' = "free"
    /\ \E o \in Outcomes :
         LET r == StatusResult(o, reload)
             a == IF r.ok THEN LoopAction(r.status) ELSE "bail"
         IN  /\ lastOutcome' = o
             /\ CASE o.kind = "panic" ->
                       /\ result' = PanicReport
                       /\ pc' = "barrier"
                       /\ dropped' = "nogil"
                       /\ operator' = EmptyBag
                  [] o.kind # "panic" /\ a = "bail" ->
                       /\ result' = EvError
                       /\ pc' = "barrier"
                       /\ dropped' = "nogil"
                       /\ operator' = EmptyBag
                  [] o.kind # "panic" /\ a = "next" ->
                       /\ pc' = "recv"
                       /\ UNCHANGED <<result, dropped, operator>>
                  [] OTHER ->
                       /\ result' = EvFinished(a)
                       /\ pc' = "drop"
                       /\ UNCHANGED <<dropped, operator>>
    /\ incoming' = IF pc' = "barrier" THEN <<>> ELSE incoming
    /\ callError' = "none"
    /\ UNCHANGED <<runResult, initDone, nSent, inClosed, event, reload,
                   reloaded, replaced, nDelivered, events, chanLen,
                   eventsClosed,
                   sendVars, callsMade, callsOk, callsErr, sendClosed>>
    /\ UNCHANGED layerVars

\* python.rs:248-254: drop the operator under the GIL, return the reason;
\* the incoming receiver goes with the closure.
DropOperator ==
    /\ pc = "drop"
    /\ gil = "free"
    /\ UNCHANGED gil
    /\ dropped' = "gil"
    /\ operator' = EmptyBag
    /\ incoming' = <<>>
    /\ pc' = "barrier"
    /\ UNCHANGED <<runResult, initDone, nSent, inClosed, event, reload,
                   reloaded, replaced, nDelivered, lastOutcome, result,
                   events, chanLen, eventsClosed, sendVars, callVars>>
    /\ UNCHANGED layerVars

\* SendTerminal with the send failure propagated: run returns the error
\* when the receiver is gone.
SendTerminalReportsFailure ==
    /\ pc = "barrier"
    /\ UNCHANGED gil
    /\ BlockingSend(result)
    /\ pc' = "done"
    /\ runResult' = IF eventsClosed THEN "Err" ELSE "Ok"
    /\ UNCHANGED <<initDone, upVars, event, opVars, result, eventsClosed,
                   sendVars, callVars>>
    /\ UNCHANGED layerVars

\* python.rs:261-273: the panic barrier sends the terminal event, ignoring
\* a send failure, and run returns Ok.
SendTerminal ==
    /\ pc = "barrier"
    /\ UNCHANGED gil
    /\ BlockingSend(result)
    /\ pc' = "done"
    /\ runResult' = "Ok"
    /\ UNCHANGED <<initDone, upVars, event, opVars, result, eventsClosed,
                   sendVars, callVars>>
    /\ UNCHANGED layerVars

(* -------------------- SendOutputCallback::__call__ -------------------- *)

\* The call returns Ok(()) to the operator.
ReturnOk ==
    /\ pc' = "on_event"
    /\ call' = NoCall
    /\ callsOk' = callsOk + 1
    /\ callError' = "none"
    /\ UNCHANGED <<callsErr, sendClosed>>

\* The call returns an error to the operator, for the given cause.
ReturnErr(cause) ==
    /\ pc' = "on_event"
    /\ call' = NoCall
    /\ callsErr' = callsErr + 1
    /\ sendClosed' = (sendClosed \/ cause = "closed")
    /\ callError' = cause
    /\ UNCHANGED callsOk

\* python.rs:337-355 once the sample is there: copy the data into it and
\* convert the metadata; then the Output event is ready to be sent.
FillSample(c, smp) ==
    \E f \in FillOutcomes :
        IF FillOk(f)
        THEN /\ call' = [c EXCEPT !.sample = smp]
             /\ pc' = "publish"
             /\ UNCHANGED <<callsOk, callsErr, sendClosed, callError>>
        ELSE ReturnErr(f)

\* python.rs:337-355: the operator calls send_output inside on_event.  Data
\* of a wrong type fails before any allocation; a payload up to the
\* threshold gets its private buffer at once; a larger one goes on to
\* request a sample.
SendOutputCall ==
    /\ pc = "on_event"
    /\ OnEventCanRun
    /\ callsMade < MaxCalls
    /\ callsMade' = callsMade + 1
    /\ \E d \in DataKinds, l \in Sizes :
         LET c == [len |-> l, no |-> callsMade + 1, sample |-> NoSample]
         IN  CASE d = "invalid" -> ReturnErr("invalid_data")
               [] d # "invalid" /\ NeedsLoan(l) ->
                    /\ call' = c
                    /\ pc' = "allocate"
                    /\ UNCHANGED <<callsOk, callsErr, sendClosed, callError>>
               [] OTHER -> FillSample(c, PrivateSample(l))
    /\ UNCHANGED <<runResult, initDone, upVars, event, opVars, result, events,
                   chanLen, eventsClosed, reply, nextReply, consumed>>
    /\ gil' = IF pc' = "publish" THEN "free" ELSE "host"
    /\ UNCHANGED <<late, lateCall>>
    /\ UNCHANGED layerVars

\* python.rs:319-326: a payload above the threshold creates a one-shot
\* channel and sends AllocateOutputSample with its sender; a closed events
\* channel fails the call and drops both ends.
AllocateRequest ==
    /\ pc = "allocate"
    /\ BlockingSend(EvAllocate(call.no, call.len, FreshReply(nextReply)))
    /\ nextReply' = nextReply + 1
    /\ IF SendResult(eventsClosed) = "err"
       THEN ReturnErr("closed") /\ UNCHANGED reply
       ELSE /\ reply' = [id |-> FreshReply(nextReply), st |-> "queued"]
            /\ pc' = "await_sample"
            /\ UNCHANGED <<call, callsOk, callsErr, sendClosed, callError>>
    /\ UNCHANGED <<runResult, initDone, upVars, event, opVars, result,
                   eventsClosed, consumed, callsMade>>
    /\ gil' = IF pc' = "publish" THEN "free" ELSE "host"
    /\ UNCHANGED <<late, lateCall>>
    /\ UNCHANGED layerVars

\* AllocateReply with the metadata converted before the reply is taken: a
\* metadata failure returns while the request's outcome is still unread.
AllocateReplyMetadataFirst ==
    /\ pc = "await_sample"
    /\ reply.st \in {"sample", "error", "dropped"}
    /\ reply' = NoReply
    /\ \E early \in BOOLEAN :
         IF early
         THEN /\ UNCHANGED consumed
              /\ ReturnErr("metadata_failed")
         ELSE /\ consumed' = Append(consumed, reply.id)
              /\ IF reply.st = "sample"
                 THEN FillSample(call, LoanedSample(call.len))
                 ELSE ReturnErr(reply.st)
    /\ UNCHANGED <<runResult, initDone, upVars, event, opVars, result, events,
                   chanLen, eventsClosed, nextReply, callsMade>>
    /\ gil' = IF pc' = "publish" THEN "free" ELSE "host"
    /\ UNCHANGED <<late, lateCall>>
    /\ UNCHANGED layerVars

\* python.rs:327-329 and 340-355: rx.blocking_recv returns the one outcome
\* of the request: a sample, which is then filled, an allocation error, or
\* the sender was dropped.
AllocateReply ==
    /\ pc = "await_sample"
    /\ reply.st \in {"sample", "error", "dropped"}
    /\ consumed' = Append(consumed, reply.id)
    /\ reply' = NoReply
    /\ IF reply.st = "sample"
       THEN FillSample(call, LoanedSample(call.len))
       ELSE ReturnErr(reply.st)
    /\ UNCHANGED <<runResult, initDone, upVars, event, opVars, result, events,
                   chanLen, eventsClosed, nextReply, callsMade>>
    /\ gil' = IF pc' = "publish" THEN "free" ELSE "host"
    /\ UNCHANGED <<late, lateCall>>
    /\ UNCHANGED layerVars

\* python.rs:357-367: the Output event is sent inside py.allow_threads,
\* that is without the interpreter lock: whoever holds the lock meanwhile,
\* the event is enqueued once the channel has room; a closed channel fails
\* the send.
PublishOutput ==
    /\ pc = "publish"
    /\ BlockingSend(EvOutput(call.no, call.len, call.sample.kind))
    /\ pc' = IF SendResult(eventsClosed) = "err" THEN "resume_err"
             ELSE "resume_ok"
    /\ UNCHANGED <<runResult, initDone, upVars, event, opVars, result,
                   eventsClosed, call, reply, nextReply, consumed, callVars,
                   gil>>
    /\ UNCHANGED <<late, lateCall>>
    /\ UNCHANGED layerVars

\* python.rs:357-369: allow_threads returns once it has the interpreter
\* lock again, and the call returns what the send gave.
ResumeCall ==
    /\ pc \in {"resume_ok", "resume_err"}
    /\ gil = "free"
    /\ gil' = "host"
    /\ IF pc = "resume_err" THEN ReturnErr("closed") ELSE ReturnOk
    /\ UNCHANGED <<runResult, initDone, upVars, event, opVars, result, events,
                   chanLen, eventsClosed, reply, nextReply, consumed,
                   callsMade>>
    /\ UNCHANGED <<late, lateCall>>
    /\ UNCHANGED layerVars

(* ------------- SendOutputCallback::__call__ outside on_event ---------- *)

\* The callback is a clonable Python object with its own clone of the
\* events sender (python.rs:72-74, 276-280), handed to the operator with
\* every on_event call (220).  __call__ looks at nothing but its arguments
\* and its sender: an operator that keeps the callback can call it from a
\* thread of its own whenever that thread gets the interpreter lock, while
\* the host waits in recv, while a call made by on_event is inside
\* allow_threads, while the Python code of on_event runs, and after run
\* has returned.  One such thread is followed; it makes its calls one
\* after the other.

\* What the host's side of a step of the operator's thread leaves alone.
lateFrame == <<pc, runResult, initDone, upVars, event, opVars, result,
               eventsClosed, call, sendClosed, callError, layerVars>>

\* The thread's call returns, Ok(()) or an error.
LateReturn(ok) ==
    /\ late' = "idle"
    /\ lateCall' = NoCall
    /\ callsOk' = IF ok THEN callsOk + 1 ELSE callsOk
    /\ callsErr' = IF ok THEN callsErr ELSE callsErr + 1

\* python.rs:340-355 in the thread's call: copy and metadata conversion.
LateFill(c, smp) ==
    \E f \in FillOutcomes :
        IF FillOk(f)
        THEN /\ lateCall' = [c EXCEPT !.sample = smp]
             /\ late' = "publish"
             /\ UNCHANGED <<callsOk, callsErr>>
        ELSE LateReturn(FALSE)

\* The interpreter lock after a step the thread makes holding it: kept
\* while the call is in allocate_sample, released in allow_threads and on
\* return.
LateGil(l) == IF l \in {"allocate", "await_sample"} THEN "thread" ELSE "free"

\* python.rs:311-355: a thread of the operator that was given the callback
\* by an earlier on_event call takes the interpreter lock and calls it.
LateSendOutputCall ==
    /\ nDelivered > 0
    /\ ThreadCanLock
    /\ late = "idle"
    /\ callsMade < MaxCalls
    /\ callsMade' = callsMade + 1
    /\ \E d \in DataKinds, l \in Sizes :
         LET c == [len |-> l, no |-> callsMade + 1, sample |-> NoSample]
         IN  CASE d = "invalid" -> LateReturn(FALSE)
               [] d # "invalid" /\ NeedsLoan(l) ->
                    /\ lateCall' = c
                    /\ late' = "allocate"
                    /\ UNCHANGED <<callsOk, callsErr>>
               [] OTHER -> LateFill(c, PrivateSample(l))
    /\ gil' = LateGil(late')
    /\ UNCHANGED <<events, chanLen, reply, nextReply, consumed>>
    /\ UNCHANGED lateFrame

\* python.rs:319-326 in the thread's call.
LateAllocateRequest ==
    /\ late = "allocate"
    /\ BlockingSend(EvAllocate(lateCall.no, lateCall.len,
                               FreshReply(nextReply)))
    /\ nextReply' = nextReply + 1
    /\ IF SendResult(eventsClosed) = "err"
       THEN LateReturn(FALSE) /\ UNCHANGED reply
       ELSE /\ reply' = [id |-> FreshReply(nextReply), st |-> "queued"]
            /\ late' = "await_sample"
            /\ UNCHANGED <<lateCall, callsOk, callsErr>>
    /\ gil' = LateGil(late')
    /\ UNCHANGED <<consumed, callsMade>>
    /\ UNCHANGED lateFrame

\* python.rs:327-329 and 340-355 in the thread's call.
LateAllocateReply ==
    /\ late = "await_sample"
    /\ reply.st \in {"sample", "error", "dropped"}
    /\ consumed' = Append(consumed, reply.id)
    /\ reply' = NoReply
    /\ IF reply.st = "sample"
       THEN LateFill(lateCall, LoanedSample(lateCall.len))
       ELSE LateReturn(FALSE)
    /\ gil' = LateGil(late')
    /\ UNCHANGED <<events, chanLen, nextReply, callsMade>>
    /\ UNCHANGED lateFrame

\* python.rs:357-367 in the thread's call: the Output is sent without the
\* interpreter lock, whoever holds it meanwhile.
LatePublishOutput ==
    /\ late = "publish"
    /\ BlockingSend(EvOutput(lateCall.no, lateCall.len,
                             lateCall.sample.kind))
    /\ late' = IF SendResult(eventsClosed) = "err" THEN "resume_err"
               ELSE "resume_ok"
    /\ UNCHANGED <<lateCall, reply, nextReply, consumed, callsMade, callsOk,
                   callsErr, gil>>
    /\ UNCHANGED lateFrame

\* python.rs:357-369 in the thread's call: allow_threads returns once the
\* thread has the interpreter lock again; the call returns and the thread
\* lets the lock go.
LateResumeCall ==
    /\ late \in {"resume_ok", "resume_err"}
    /\ ThreadCanLock
    /\ LateReturn(late = "resume_ok")
    /\ gil' = LateGil(late')
    /\ UNCHANGED <<events, chanLen, reply, nextReply, consumed, callsMade>>
    /\ UNCHANGED lateFrame

\* A call of the thread that is in progress goes on.
LateStep ==
    \/ LateAllocateRequest
    \/ LateAllocateReply
    \/ LatePublishOutput
    \/ LateResumeCall

(* ------------------------- the environment ---------------------------- *)

\* The receiver of the incoming channel is owned by the python_runner
\* closure (python.rs:110, 126) and dropped when the closure returns, or
\* with run's arguments when run returns early.
ReceiverAlive == pc \notin {"barrier", "done", "unsupported", "no_tracing"}

\* The upstream puts an event on the incoming channel.
UpstreamSend ==
    /\ ReceiverAlive
    /\ ~inClosed
    /\ nSent < MaxEvents
    /\ nSent' = nSent + 1
    /\ \E k \in EventKinds :
         incoming' = Append(incoming, [kind |-> k, seq |-> nSent + 1])
    /\ UNCHANGED <<hostVars, inClosed, events, chanLen, eventsClosed, reply>>
    /\ UNCHANGED layerVars

\* The upstream drops every sender of the incoming channel.
UpstreamClose ==
    /\ ReceiverAlive
    /\ ~inClosed
    /\ inClosed' = TRUE
    /\ UNCHANGED <<hostVars, nSent, incoming, events, chanLen, eventsClosed,
                   reply>>
    /\ UNCHANGED layerVars

\* The runtime receives the oldest event of the operator-events channel;
\* with an AllocateOutputSample it now holds the reply sender.
RuntimeRecv ==
    /\ chanLen > 0
    /\ chanLen' = chanLen - 1
    /\ reply' = IF /\ OldestQueued.type = "AllocateOutputSample"
                   /\ OldestQueued.reply = reply.id
                   /\ reply.st = "queued"
                THEN [reply EXCEPT !.st = "held"]
                ELSE reply
    /\ UNCHANGED <<hostVars, upVars, events, eventsClosed>>
    /\ UNCHANGED layerVars

\* The runtime answers the request it holds, or drops the reply sender.
TransportReply ==
    /\ reply.st = "held"
    /\ \E o \in {"sample", "error", "dropped"} :
         reply' = [reply EXCEPT !.st = o]
    /\ UNCHANGED <<hostVars, upVars, events, chanLen, eventsClosed>>
    /\ UNCHANGED layerVars

\* The runtime drops the receiver of the operator-events channel: what is
\* still queued is dropped with it, a queued reply sender included.
RuntimeClose ==
    /\ ~eventsClosed
    /\ eventsClosed' = TRUE
    /\ chanLen' = 0
    /\ reply' = IF reply.st = "queued" THEN [reply EXCEPT !.st = "dropped"]
                ELSE reply
    /\ UNCHANGED <<hostVars, upVars, events>>
    /\ UNCHANGED layerVars

(* -------------------- IceoryxCommunicationLayer ----------------------- *)

\* get_or_create_publisher without the lookup: a publisher is created on
\* every call and replaces the entry of the topic.
GetOrCreateAlways(map, made, t, ok) ==
    IF ok
    THEN [ok |-> TRUE, pub |-> Len(made) + 1,
          map |-> [map EXCEPT ![t] = Len(made) + 1],
          made |-> Append(made, t)]
    ELSE [ok |-> FALSE, pub |-> NoPublisher, map |-> map, made |-> made]

\* get_or_create_publisher (iceoryx.rs:47-63): the publisher the map holds
\* for the topic, or a new one, inserted under the topic, when the map
\* holds none and create_publisher succeeds (`ok`); when it fails the error
\* is returned before the insert.
GetOrCreatePublisher(map, made, t, ok) ==
    IF map[t] # NoPublisher
    THEN [ok |-> TRUE, pub |-> map[t], map |-> map, made |-> made]
    ELSE IF ok
         THEN [ok |-> TRUE, pub |-> Len(made) + 1,
               map |-> [map EXCEPT ![t] = Len(made) + 1],
               made |-> Append(made, t)]
         ELSE [ok |-> FALSE, pub |-> NoPublisher, map |-> map, made |-> made]

\* Calls made so far on the layer and on the handles it gave out.
LayerCalls == Len(handles) + Len(receivers) + failures

\* CommunicationLayer::publisher (iceoryx.rs:75-81): a new handle around
\* the publisher get_or_create_publisher returns, or its error.
PublisherCall ==
    /\ LayerCalls < MaxLayerCalls
    /\ \E t \in Topics, ok \in BOOLEAN :
         LET r == GetOrCreatePublisher(publishers, created, t, ok)
         IN  /\ publishers' = r.map
             /\ created' = r.made
             /\ IF r.ok
                THEN /\ handles' = Append(handles, [topic |-> t, pub |-> r.pub])
                     /\ UNCHANGED failures
                ELSE /\ failures' = failures + 1
                     /\ UNCHANGED handles
    /\ UNCHANGED <<receivers, runtimeVars>>

\* Publisher::dyn_clone (iceoryx.rs:113-115): a new handle that clones the
\* Arc of the handle it is called on.
DynClone ==
    /\ LayerCalls < MaxLayerCalls
    /\ \E i \in 1..Len(handles) : handles' = Append(handles, handles[i])
    /\ UNCHANGED <<publishers, created, receivers, failures, runtimeVars>>

\* CommunicationLayer::subscribe (iceoryx.rs:83-93): a subscriber is built
\* on every call and its receiver returned; the publishers map is not
\* touched.  The receivers are numbered in the order they were built.
Subscribe ==
    /\ LayerCalls < MaxLayerCalls
    /\ \E t \in Topics, ok \in BOOLEAN :
         IF ok
         THEN /\ receivers' = Append(receivers,
                                     [topic |-> t, sub |-> Len(receivers) + 1])
              /\ UNCHANGED failures
         ELSE /\ failures' = failures + 1
              /\ UNCHANGED receivers
    /\ UNCHANGED <<publishers, created, handles, runtimeVars>>

LayerNext ==
    \/ PublisherCall
    \/ DynClone
    \/ Subscribe

\* One communication layer and the calls made on it.
LayerSpec == Init /\ [][LayerNext]_vars

(* ------------------------- specification ------------------------------ *)

HostStep ==
    \/ RunOperator
    \/ ResolveOk
    \/ ResolveFail
    \/ InitOperator
    \/ RecvEvent
    \/ ReloadOperator
    \/ CallOnEvent
    \/ OnEventEnds
    \/ DropOperator
    \/ SendTerminal
    \/ SendOutputCall
    \/ AllocateRequest
    \/ AllocateReply
    \/ PublishOutput
    \/ ResumeCall

Next ==
    \/ HostStep
    \/ LateSendOutputCall
    \/ LateStep
    \/ UpstreamSend
    \/ UpstreamClose
    \/ RuntimeRecv
    \/ TransportReply
    \/ RuntimeClose

Spec == Init /\ [][Next]_vars

\* The steps of the runs followed to their end: those of Next, with the
\* upstream sending up to MaxFairEvents events.
FairNext ==
    \/ HostStep
    \/ LateSendOutputCall
    \/ LateStep
    \/ UpstreamSend /\ nSent < MaxFairEvents
    \/ UpstreamClose
    \/ RuntimeRecv
    \/ TransportReply
    \/ RuntimeClose

\* The host thread runs whenever it is not blocked, a call of the
\* operator's thread goes on whenever it can, the runtime keeps draining
\* the operator-events channel and settles every request it holds.
FairSpec ==
    /\ Init
    /\ [][FairNext]_vars
    /\ WF_vars(HostStep)
    /\ WF_vars(LateStep)
    /\ WF_vars(RuntimeRecv)
    /\ WF_vars(TransportReply)

(* ------------------------- vocabulary --------------------------------- *)

\* The operator is run by the Python host.
PythonHost == pc \notin {"dispatch", "shared_lib", "unsupported", "no_tracing"}

\* The host is inside the loop of python_runner.
InLoop ==
    pc \in {"recv", "reload", "call", "on_event", "allocate", "await_sample",
            "publish", "resume_ok", "resume_err"}

\* An on_event call is in progress.
InOnEvent ==
    pc \in {"on_event", "allocate", "await_sample", "publish", "resume_ok",
            "resume_err"}

\* The loop has been left.
Exited == pc \in {"drop", "barrier", "done"}

\* The run ended in the reload block: the latest event received is a
\* Reload that on_event was not called for (python.rs:128-172 unwinding to
\* the barrier at 261).
ReloadPanicked ==
    /\ Exited
    /\ event.kind = "Reload"
    /\ event.seq = nDelivered + 1

\* Positions of the operator-events log holding an event of the given types.
Positions(types) == {i \in 1..Len(events) : events[i].type \in types}

TerminalCount == Cardinality(Positions(TerminalTypes))

\* The terminal event of the run is in the log, and is the only one.
TerminalSent ==
    \E i \in 1..Len(events) :
        /\ Positions(TerminalTypes) = {i}
        /\ events[i] = result

Returned(v) == lastOutcome = [kind |-> "return", value |-> v]

(* ------------------------- claims ------------------------------------- *)

\* C1: every run of python::run that has returned, whatever its outcome,
\* has sent exactly one terminal event (Finished, Error or Panic) on the
\* operator-events channel, provided the channel is open.
C1_ExactlyOneTerminal ==
    (pc = "done" /\ ~eventsClosed) => TerminalCount = 1

\* C2: a terminal event is the last event of the operator on the
\* operator-events channel: no Output and no AllocateOutputSample is
\* enqueued after it.
C2_TerminalIsLast ==
    \A i \in Positions(TerminalTypes) : i = Len(events)

\* C3: the status on_event returns decides the loop action, with or without
\* an earlier Reload: Continue keeps the host in the loop (which then ends
\* only by InputsClosed, or by a panic while a later Reload is handled),
\* Stop ends it with Finished{ExplicitStop}, StopAll with
\* Finished{ExplicitStopAll}, any other integer with Error; after a
\* Stop or StopAll no further event is delivered to on_event.
C3_StatusDecides ==
    /\ Returned(Continue) =>
          \/ InLoop
          \/ Exited /\ result = EvFinished("InputsClosed")
          \/ ReloadPanicked /\ result = EvPanic
    /\ Returned(Stop) => Exited /\ result = EvFinished("ExplicitStop")
    /\ Returned(StopAll) => Exited /\ result = EvFinished("ExplicitStopAll")
    /\ Returned(InvalidStatus) => pc \in {"barrier", "done"} /\ result = EvError
    /\ (pc = "done" /\ ~eventsClosed /\ lastOutcome.kind = "return") =>
          TerminalSent

\* C3 witness: after a Reload, on_event returned Stop while another event
\* was queued; the loop is left with ExplicitStop and the queued event is
\* still in the channel, undelivered.
C3_Witness ==
    /\ pc = "drop"
    /\ reload
    /\ Returned(Stop)
    /\ incoming # <<>>
    /\ nDelivered = 1
    /\ result = EvFinished("ExplicitStop")

\* No on_event call so far has returned Stop or StopAll or failed: each one
\* returned Continue, or raised in reload mode.
ContinueLike ==
    \/ lastOutcome = NoOutcome
    \/ Returned(Continue)
    \/ lastOutcome.kind = "raise" /\ reload

\* C4 as stated: a run that was initialised and in which no on_event call
\* returned Stop or StopAll or failed leaves the loop with InputsClosed,
\* the incoming channel being closed.
C4_InputsClosed ==
    (Exited /\ initDone = "ok" /\ ContinueLike)
        => (result = EvFinished("InputsClosed") /\ inClosed)

\* C4 amended: once the incoming channel is closed the host finishes what
\* it is doing and the run ends; if it was initialised and no on_event
\* returned Stop or StopAll or failed, the loop is left with InputsClosed,
\* and only with the channel closed, unless a panic while a Reload event
\* was handled ended the run with Panic; if no event was ever sent, the
\* log holds Finished{InputsClosed} and no Output.
C4_ClosedEndsRun ==
    /\ [](Exited /\ initDone = "ok" /\ ContinueLike
            => \/ result = EvFinished("InputsClosed") /\ inClosed
               \/ ReloadPanicked /\ result = EvPanic)
    /\ [](pc = "done" /\ initDone = "ok" /\ nSent = 0
            => /\ result = EvFinished("InputsClosed")
               /\ Positions({"Output", "AllocateOutputSample"}) = {}
               /\ ~eventsClosed => events = <<result>>)
    /\ ((inClosed /\ PythonHost) ~> pc = "done")

\* C4 witness: the event sent was delivered, on_event returned Continue,
\* the channel was closed, and the log is an Output and
\* Finished{InputsClosed}.
C4_Witness ==
    /\ pc = "done"
    /\ inClosed
    /\ nDelivered = MaxFairEvents
    /\ Returned(Continue)
    /\ events = <<EvOutput(1, 0, "private"), EvFinished("InputsClosed")>>

\* C5 as stated: once the host has received a Stop event and the on_event
\* call for it has completed, the host has left its main loop; it does not
\* wait for the incoming channel again.
C5_StopEndsLoop ==
    (event.kind = "Stop" /\ ~InOnEvent /\ pc # "call") => Exited

\* C5 amended: a Stop event is passed to on_event like any other event; the
\* status decides what follows.  With Stop or StopAll the loop is left with
\* that reason, with Continue (or a raise in reload mode) the host goes
\* back to receive and leaves only once the channel is closed.
C5_StopIsDelivered ==
    (event.kind = "Stop" /\ pc # "call") =>
        /\ nDelivered = event.seq
        /\ (~InOnEvent /\ ContinueLike) =>
              \/ pc = "recv"
              \/ Exited /\ result = EvFinished("InputsClosed") /\ inClosed
        /\ (~InOnEvent /\ Returned(Stop)) =>
              Exited /\ result = EvFinished("ExplicitStop")
        /\ (~InOnEvent /\ Returned(StopAll)) =>
              Exited /\ result = EvFinished("ExplicitStopAll")

\* C5 witness: on_event returned Continue for the Stop event and the host
\* is blocked on the open, empty incoming channel.
C5_Witness ==
    /\ pc = "recv"
    /\ event.kind = "Stop"
    /\ Returned(Continue)
    /\ incoming = <<>>
    /\ ~inClosed

\* Positions of the AllocateOutputSample events of send_output call c.
AllocPositions(c) ==
    {i \in Positions({"AllocateOutputSample"}) : events[i].call = c}

\* The buffer and the requests of a send_output call c in progress at
\* position p are those its payload size asks for.
SampleByThreshold(p, c) ==
    /\ p \in {"publish", "resume_ok", "resume_err"} =>
          IF c.len <= ZERO_COPY_THRESHOLD
          THEN /\ c.sample = [kind |-> "private", len |-> c.len,
                              align |-> 128, fill |-> "zero"]
               /\ AllocPositions(c.no) = {}
          ELSE /\ c.sample.kind = "loan"
               /\ c.sample.len = c.len
               /\ Cardinality(AllocPositions(c.no)) = 1
    /\ p \in {"allocate", "await_sample"} => c.len > ZERO_COPY_THRESHOLD

\* C6: a send_output call with payload size s up to ZERO_COPY_THRESHOLD
\* (zero included) sends no AllocateOutputSample and uses a private,
\* zero-initialised buffer of exactly s bytes; with s above the threshold
\* exactly one AllocateOutputSample{len = s} precedes the call's Output.
C6_Threshold ==
    /\ \A i \in Positions({"Output"}) :
          IF events[i].len <= ZERO_COPY_THRESHOLD
          THEN /\ AllocPositions(events[i].call) = {}
               /\ events[i].sample = "private"
          ELSE /\ \E j \in 1..(i - 1) :
                    /\ AllocPositions(events[i].call) = {j}
                    /\ events[j].len = events[i].len
               /\ events[i].sample = "loan"
    /\ \A i \in Positions({"AllocateOutputSample"}) :
          events[i].len > ZERO_COPY_THRESHOLD
    /\ SampleByThreshold(pc, call)
    /\ SampleByThreshold(late, lateCall)

\* C6 witness: a payload of exactly the threshold went out from a private
\* buffer with no request, one a byte larger after one request of its size.
C6_Witness ==
    events = <<EvOutput(1, ZERO_COPY_THRESHOLD, "private"),
               EvAllocate(2, ZERO_COPY_THRESHOLD + 1, 1),
               EvOutput(2, ZERO_COPY_THRESHOLD + 1, "loan")>>

\* The send_output calls in progress, and those of them whose Output is
\* enqueued and that are about to return Ok(()).
CallsInProgress ==
    (IF call = NoCall THEN 0 ELSE 1) + (IF lateCall = NoCall THEN 0 ELSE 1)

CallsSucceeding ==
    (IF pc = "resume_ok" THEN 1 ELSE 0) + (IF late = "resume_ok" THEN 1 ELSE 0)

\* C7: the Output events enqueued are as many as the send_output calls
\* that returned success or have sent their Output and are returning
\* success; every other finished call returned an error and enqueued no
\* Output.
C7_OutputsMatchSuccesses ==
    /\ Cardinality(Positions({"Output"})) = callsOk + CallsSucceeding
    /\ callsOk + callsErr + CallsInProgress = callsMade

\* C7 witness: one call succeeded, then the events channel was closed and
\* the next call failed; the log holds the one Output.
C7_Witness ==
    /\ pc = "done"
    /\ callsOk = 1
    /\ callsErr = 1
    /\ eventsClosed
    /\ Len(events) = 1
    /\ events[1].type = "Output"

\* The reply channels the host has consumed an outcome from.
ConsumedSet == {consumed[k] : k \in 1..Len(consumed)}

\* A send_output call, of on_event or of a thread of the operator, waits
\* in rx.blocking_recv for the outcome of its request (python.rs:327).
AwaitingSample == pc = "await_sample" \/ late = "await_sample"

\* C8: every AllocateOutputSample carries a reply channel no other request
\* carries; the host takes exactly one outcome from each, none twice and
\* none from a channel it did not send; and a send_output call waiting for
\* its reply eventually returns, be it a call of on_event or a call of a
\* thread of the operator.
C8_ReplyChannels ==
    /\ [](\A i, j \in Positions({"AllocateOutputSample"}) :
             i # j => events[i].reply # events[j].reply)
    /\ [](\A i, j \in 1..Len(consumed) : i # j => consumed[i] # consumed[j])
    /\ [](\A i \in Positions({"AllocateOutputSample"}) :
             IF AwaitingSample /\ reply.id = events[i].reply
             THEN events[i].reply \notin ConsumedSet
             ELSE events[i].reply \in ConsumedSet)
    /\ [](\A r \in ConsumedSet :
             \E i \in Positions({"AllocateOutputSample"}) : events[i].reply = r)
    /\ (pc = "await_sample" ~> call = NoCall)
    /\ (late = "await_sample" ~> lateCall = NoCall)

\* C8 witness: a call of on_event sent a request and consumed its outcome;
\* then, with on_event still in progress, a call of a thread of the
\* operator sent a request on a reply channel of its own, consumed the
\* sample it got and is about to send its Output.
C8_Witness ==
    /\ pc = "on_event"
    /\ late = "publish"
    /\ lateCall.sample.kind = "loan"
    /\ consumed = <<1, 2>>
    /\ Cardinality(Positions({"AllocateOutputSample"})) = 2

\* How many events the host has taken from the incoming channel.
Received ==
    IF pc \in {"reload", "call"} \/ ReloadPanicked THEN nDelivered + 1
    ELSE nDelivered

\* C9: the Output events are in the log in the order in which the
\* send_output calls were made; the k-th on_event call gets the k-th event
\* the upstream sent, and the queue holds the later ones in the order sent.
C9_Order ==
    /\ \A i, j \in Positions({"Output"}) :
          i < j => events[i].call < events[j].call
    /\ InOnEvent => event.seq = nDelivered
    /\ pc \in {"reload", "call"} => event.seq = nDelivered + 1
    /\ InLoop => \A i \in 1..Len(incoming) : incoming[i].seq = Received + i

\* C10: after a successful Reload the operator's state is the fresh
\* __init__ state updated with the previous instance's state: every key
\* the previous instance had keeps its value, the others have the fresh
\* value; so the counter self.n goes on counting the on_event calls.
C10_ReloadMerges ==
    /\ (pc = "call" /\ reloaded.to \in Versions) =>
          \A k \in Keys :
              operator[k] = IF reloaded.previous[k] # Absent
                            THEN reloaded.previous[k]
                            ELSE InitBag(reloaded.to)[k]
    /\ InLoop => operator["n"] = nDelivered

\* C10 witness: the instance of version A had counted one call and set x
\* to 42; the reload to version B kept both and added B's own key y.
C10_Witness ==
    /\ pc = "call"
    /\ reloaded.to = "B"
    /\ reloaded.previous["x"] = 42
    /\ reloaded.previous["y"] = Absent
    /\ operator["n"] = 1
    /\ operator["x"] = 42
    /\ operator["y"] = 7
    /\ operator["dataflow_descriptor"] = 1

\* C11: a Reload that fails is only logged.  The operator and its state are
\* the ones from before, no terminal event comes from the failure, the
\* Reload event still goes to on_event, and the outcome of that call alone
\* decides: Stop and StopAll end the loop with their reason, Continue (or
\* an exception, Reload having set the flag) goes on to the next event.
C11_ReloadFailureKept ==
    reloaded.to = "fail" =>
        /\ event.kind = "Reload"
        /\ reload
        /\ pc = "call" =>
              /\ operator = reloaded.previous
              /\ result = NoResult
              /\ TerminalCount = 0
        /\ pc # "call" => nDelivered = event.seq
        /\ (InLoop /\ dropped = "no") => operator["n"] = nDelivered
        /\ (~InOnEvent /\ pc # "call") =>
              /\ Returned(Stop) => Exited /\ result = EvFinished("ExplicitStop")
              /\ Returned(StopAll) =>
                    Exited /\ result = EvFinished("ExplicitStopAll")
              /\ (Returned(Continue) \/ lastOutcome.kind = "raise") =>
                    \/ pc = "recv"
                    \/ Exited /\ result = EvFinished("InputsClosed")
              /\ result = EvError =>
                    lastOutcome.kind = "noenum" \/ Returned(InvalidStatus)
              /\ result = EvPanic => lastOutcome.kind = "panic"

\* C11 witness: the reload failed, the instance of before (one call counted,
\* x set by the INPUT) handled the Reload event, returned Stop, and the
\* run ended with Finished{ExplicitStop}.
C11_Witness ==
    /\ pc = "done"
    /\ reloaded.to = "fail"
    /\ nDelivered = 2
    /\ Returned(Stop)
    /\ events = <<EvFinished("ExplicitStop")>>

\* C12: when on_event raises and no Reload event has been received in the
\* run, the run ends with an Error terminal event, the last event of the
\* log with only Outputs and sample requests before it and no event after
\* it; when a Reload event has been received the exception counts as
\* Continue and the host goes on to the next event.
C12_RaiseHandling ==
    lastOutcome.kind = "raise" =>
        IF reload
        THEN /\ result # EvError
             /\ \/ InLoop
                \/ Exited /\ result = EvFinished("InputsClosed")
                \/ ReloadPanicked /\ result = EvPanic
        ELSE /\ pc \in {"barrier", "done"}
             /\ result = EvError
             /\ (pc = "done" /\ ~eventsClosed) =>
                   /\ events[Len(events)] = EvError
                   /\ Positions(TerminalTypes) = {Len(events)}

\* C13: a native panic unwinding through the host, out of on_event, of
\* the reload block or of init, is caught by the barrier of run: the host
\* has left the loop, what it reports is Panic and not Error, the host
\* does not hold the interpreter lock any more, and run returns Ok with
\* the Panic as the one terminal event of the log.
C13_PanicCaught ==
    /\ lastOutcome.kind = "panic" => result = EvPanic
    /\ result = EvPanic =>
          /\ pc \in {"barrier", "done"}
          /\ \/ lastOutcome.kind = "panic"
             \/ ReloadPanicked
             \/ initDone = "dropped" /\ nDelivered = 0
          /\ gil # "host"
          /\ runResult = IF pc = "done" THEN "Ok" ELSE "running"
          /\ (pc = "done" /\ ~eventsClosed) =>
                /\ TerminalSent
                /\ Positions({"Error", "Finished"}) = {}

\* C13 witness: on_event panicked on the second event after the first had
\* sent an Output; run has returned Ok and the log ends with Panic.
C13_Witness ==
    /\ pc = "done"
    /\ runResult = "Ok"
    /\ lastOutcome.kind = "panic"
    /\ nDelivered = 2
    /\ gil = "free"
    /\ events = <<EvOutput(1, 0, "private"), EvPanic>>

\* C14: the outcome of initialization is always reported on the init-done
\* channel.  Once the host is past resolution and init, init-done has
\* received success or the error; success is there before the first
\* incoming event is received; after a failure of resolution or of the
\* bind the host has exited and on_event was never called.
C14_InitReported ==
    /\ (PythonHost /\ pc \notin {"resolve", "init"}) =>
          initDone \in {"ok", "err"}
    /\ event # NoEvent => initDone = "ok"
    /\ initDone # "ok" => nDelivered = 0
    /\ initDone \in {"err", "dropped"} => Exited

\* C15 as stated: after a send_output call has failed on the closed
\* operator-events channel and on_event has returned Continue, the host
\* leaves its loop with InputsClosed at the next iteration: it receives no
\* further event.
C15_ClosedEndsLoop ==
    /\ sendClosed => (eventsClosed /\ callsErr > 0)
    /\ (sendClosed /\ ~InOnEvent /\ Returned(Continue)) =>
          \/ pc = "recv"
          \/ Exited /\ result = EvFinished("InputsClosed")

\* C15 amended: a send_output call on the closed operator-events channel
\* returns an error and enqueues no Output, and that is all: the host goes
\* on as the outcome of on_event says.  After Continue it receives the next
\* event; it leaves the loop with InputsClosed only when the incoming
\* channel is closed.
C15_ClosedSendFails ==
    /\ sendClosed =>
          /\ eventsClosed
          /\ callsErr > 0
          /\ Cardinality(Positions({"Output"})) = callsOk + CallsSucceeding
    /\ (sendClosed /\ ~InOnEvent) =>
          /\ ContinueLike =>
                \/ pc \in {"recv", "reload", "call"}
                \/ Exited /\ result = EvFinished("InputsClosed") /\ inClosed
                \/ ReloadPanicked /\ result = EvPanic
          /\ Returned(Stop) => Exited /\ result = EvFinished("ExplicitStop")
          /\ Returned(StopAll) =>
                Exited /\ result = EvFinished("ExplicitStopAll")
          /\ (lastOutcome.kind = "raise" /\ ~reload) =>
                pc \in {"barrier", "done"} /\ result = EvError
    /\ (Exited /\ result = EvFinished("InputsClosed")) => inClosed

\* C15 witness: the one send_output call of the first event failed on the
\* closed channel, on_event returned Continue, and the host has received
\* the second event from the still open incoming channel.
C15_Witness ==
    /\ pc = "call"
    /\ sendClosed
    /\ Returned(Continue)
    /\ nDelivered = 1
    /\ event.seq = 2
    /\ ~inClosed
    /\ callsErr = 1
    /\ events = <<>>

\* C16: the terminal event is sent best-effort.  When the operator-events
\* channel is closed as the host finishes, the step of the barrier leaves
\* the log as it is and run returns Ok all the same; a run that got as far
\* as the barrier returns Ok, with its terminal event in the log or, the
\* channel being closed, with none.
C16_BestEffortTerminal ==
    /\ [][(pc = "barrier" /\ eventsClosed /\ pc' # pc) =>
            (pc' = "done" /\ runResult' = "Ok" /\ events' = events)]_vars
    /\ []((pc = "done" /\ result # NoResult) =>
            /\ runResult = "Ok"
            /\ TerminalCount = 0 => eventsClosed
            /\ TerminalCount # 0 => TerminalSent)

\* C16 witness: the loop ended with InputsClosed after the runtime had
\* dropped its receiver; run returned Ok and no terminal event is in the log.
C16_Witness ==
    /\ pc = "done"
    /\ runResult = "Ok"
    /\ eventsClosed
    /\ result = EvFinished("InputsClosed")
    /\ nDelivered = 1
    /\ TerminalCount = 0

\* C17: dispatching an operator whose source kind is Wasm makes
\* run_operator return an "unsupported" error, with no host started and no
\* operator code invoked.
C17_WasmUnsupported ==
    pc = "unsupported" =>
        /\ runResult = "Err"
        /\ initDone = "unsent"
        /\ nDelivered = 0
        /\ operator = EmptyBag
        /\ events = <<>>

\* C18 as stated: a run that ends because the incoming channel was dropped
\* has made the on_event invocations of a run that was sent Stop before the
\* close, one with a STOP event included: when the loop has ended with
\* InputsClosed, the last on_event invocation was for a Stop event.
C18_DropIsStopThenClose ==
    (pc = "done" /\ result = EvFinished("InputsClosed")) => event.kind = "Stop"

\* C18 amended: dropping the channel and Stop followed by the close differ
\* by the on_event invocation for the Stop event.  A loop that ends with
\* InputsClosed has passed every event sent to on_event, none of them
\* ending the loop, and made no invocation beyond those; a Stop event that
\* was sent is one of them, and the status returned for it may end the
\* run with ExplicitStop or ExplicitStopAll instead.
C18_DropVersusStop ==
    /\ (Exited /\ result = EvFinished("InputsClosed")) =>
          /\ inClosed
          /\ nDelivered = nSent
          /\ event.seq = nSent
          /\ ContinueLike
    /\ (Exited /\ event.kind = "Stop" /\ Returned(Stop)) =>
          /\ nDelivered = event.seq
          /\ result = EvFinished("ExplicitStop")
    /\ (Exited /\ event.kind = "Stop" /\ Returned(StopAll)) =>
          /\ nDelivered = event.seq
          /\ result = EvFinished("ExplicitStopAll")

\* C18 witness: an Input and then a Stop were sent and the channel closed;
\* on_event was invoked for both and the run ended with InputsClosed.
C18_Witness ==
    /\ pc = "done"
    /\ inClosed
    /\ nSent = 2
    /\ nDelivered = 2
    /\ event = [kind |-> "Stop", seq |-> 2]
    /\ Returned(Continue)
    /\ events = <<EvFinished("InputsClosed")>>

\* C19: whatever the sequence of incoming events, Reload included, the
\* event on_event is called with is a map whose type is STOP, INPUT or
\* INPUT_CLOSED, with id exactly for INPUT and INPUT_CLOSED, and with data
\* (bytes, empty when the payload is absent) and metadata exactly for
\* INPUT.
C19_EventView ==
    InOnEvent =>
        \A p \in Payloads :
            LET v == IntoPy(event.kind, p)
            IN  /\ v.type \in {"STOP", "INPUT", "INPUT_CLOSED"}
                /\ v.id <=> v.type \in {"INPUT", "INPUT_CLOSED"}
                /\ v.metadata <=> v.type = "INPUT"
                /\ v.data # "-" <=> v.type = "INPUT"
                /\ (v.type = "INPUT" /\ p = "none") => v.data = "empty"

\* C20: after any calls of publisher and subscribe on one layer, each
\* topic has at most one underlying publisher, created by the first
\* successful call for the topic; every handle for a topic, a dyn_clone
\* included, refers to the publisher the map holds for the topic; every
\* subscribe call gives a subscriber of its own; and a subscribe call or a
\* failed publisher call leaves the publishers map as it was.
C20_PublisherMemo ==
    /\ [](\A i, j \in 1..Len(created) : i # j => created[i] # created[j])
    /\ [](\A t \in Topics :
             publishers[t] # NoPublisher =>
                 /\ publishers[t] \in 1..Len(created)
                 /\ created[publishers[t]] = t)
    /\ [](\A i \in 1..Len(handles) :
             handles[i].pub = publishers[handles[i].topic])
    /\ [](\A i, j \in 1..Len(receivers) :
             i # j => receivers[i].sub # receivers[j].sub)
    /\ [][(receivers' # receivers \/ failures' # failures)
            => UNCHANGED <<publishers, created>>]_vars

\* C20 witness: two publisher calls for topic a, a dyn_clone, and a
\* subscribe on the same topic: three handles on the one publisher.
C20_Witness ==
    /\ created = <<"a">>
    /\ handles = <<[topic |-> "a", pub |-> 1], [topic |-> "a", pub |-> 1],
                   [topic |-> "a", pub |-> 1]>>
    /\ receivers = <<[topic |-> "a", sub |-> 1]>>
    /\ publishers["a"] = 1
    /\ publishers["b"] = NoPublisher

\* The host thread cannot go on: it waits for room on the operator-events
\* channel or for the outcome of a sample request.
HostBlocked ==
    \/ pc \in {"allocate", "publish", "barrier"} /\ ~CanSend
    \/ pc = "await_sample" /\ reply.st \in {"queued", "held"}

\* C21: the operator thread never holds the interpreter lock while it is
\* blocked on the operator-events channel or on the sample-allocation
\* reply: the AllocateOutputSample request and the Output event are both
\* sent with the lock released.
C21_BlockedWithoutLock ==
    /\ HostBlocked => gil # "host"
    /\ pc \in {"allocate", "await_sample", "publish"} => gil # "host"

\* C22: on every path by which the main loop exits (InputsClosed, a Stop or
\* StopAll status, an on_event error, an invalid status, a panic) the
\* operator instance is dropped while the interpreter lock is held, and
\* the drop comes before the terminal event is enqueued.
C22_DropUnderLock ==
    /\ (initDone = "ok" /\ pc \in {"barrier", "done"}) => dropped = "gil"
    /\ (initDone = "ok" /\ TerminalCount > 0) => dropped = "gil"

\* Positions of the events send_output call c enqueued.
CallPositions(c) == {i \in 1..Len(events) : events[i].call = c}

\* Call c has returned: neither the call of on_event nor the call of the
\* operator's thread that is in progress is call c.
CallReturned(c) ==
    /\ c <= callsMade
    /\ call = NoCall \/ call.no # c
    /\ lateCall = NoCall \/ lateCall.no # c

\* The request of the call in frame c is the one event the call has
\* enqueued, it asks for the call's payload size, and the reply consumed in
\* this step is the reply to it.
RequestAnswered(c) ==
    /\ c.len > ZERO_COPY_THRESHOLD
    /\ reply.st = "sample"
    /\ \E i \in 1..Len(events) :
          /\ CallPositions(c.no) = {i}
          /\ events[i] = EvAllocate(c.no, c.len, reply.id)
    /\ consumed' = Append(consumed, reply.id)
    /\ events' = events

\* C23: in send_output the sample is acquired before the metadata is
\* converted.  A call with a payload above ZERO_COPY_THRESHOLD whose
\* metadata fails to convert has enqueued one AllocateOutputSample and
\* taken its reply, a sample, when it returns the metadata error, and that
\* request is all it has enqueued; this is so for a call made by on_event
\* and for a call made by a thread of the operator, which returns an
\* error after it got its sample.  A call that has returned enqueues
\* nothing afterwards, so the failed call never gets an Output.  A call
\* with data of an invalid type fails before any allocation: it returns
\* in the step it is made, enqueues nothing and creates no reply channel.
C23_SampleBeforeMetadata ==
    /\ [][(pc = "await_sample" /\ pc' = "on_event"
            /\ callError' = "metadata_failed") =>
               /\ RequestAnswered(call)
               /\ \A c \in {call.no} : CallReturned(c)'
               /\ callsErr' = callsErr + 1
               /\ callsOk' = callsOk]_vars
    /\ [][(late = "await_sample" /\ late' = "idle" /\ reply.st = "sample") =>
               /\ RequestAnswered(lateCall)
               /\ \A c \in {lateCall.no} : CallReturned(c)'
               /\ callsErr' = callsErr + 1
               /\ callsOk' = callsOk]_vars
    /\ [][\A c \in 1..MaxCalls :
             CallReturned(c) => CallPositions(c)' = CallPositions(c)]_vars
    /\ [][(callsMade' = callsMade + 1 /\ callsErr' = callsErr + 1) =>
               /\ \A c \in {callsMade + 1} :
                     CallReturned(c)' /\ CallPositions(c)' = {}
               /\ events' = events
               /\ nextReply' = nextReply
               /\ consumed' = consumed]_vars
    /\ [][(callError # "invalid_data" /\ callError' = "invalid_data") =>
               /\ pc = "on_event" /\ pc' = "on_event"
               /\ callsMade' = callsMade + 1
               /\ callsErr' = callsErr + 1]_vars

\* C23 witness: the one call made had a payload a byte above the threshold,
\* got its sample and then failed on the metadata: the log holds its
\* request and nothing else.
C23_Witness ==
    /\ pc = "on_event"
    /\ callError = "metadata_failed"
    /\ callsMade = 1
    /\ callsErr = 1
    /\ events = <<EvAllocate(1, ZERO_COPY_THRESHOLD + 1, 1)>>
    /\ consumed = <<1>>

====
